---- MODULE Spec2Model ----
(***************************************************************************)
(* Model of the transmission-rpc client (src/src/lib.rs): TransClient, its *)
(* two constructors, rpc_request, get_session_id, the generic call path    *)
(* and the three typed operations.  A call is an async fn with two         *)
(* suspension points: the send().await of get_session_id (line 64) and the *)
(* send().await / json().await of call (lines 128-129).  The caller either *)
(* polls its calls inside one task (join!, as the test does with its one   *)
(* call) or spawns each as a task of its own: a panic unwinds the task it  *)
(* happens in, and with it every call that task is polling.                *)
(* The HTTP transport and the Transmission daemon are the environment:     *)
(* they answer each request with a response or with a transport failure,   *)
(* and the daemon may rotate its session token at any time.                *)
(***************************************************************************)
EXTENDS Integers, Sequences, FiniteSets, TLC

\* ---------------------------------------------------------------- bounds
MaxCalls == 2
MaxRotations == 1

CallIds == 1 .. MaxCalls

\* ------------------------------------------------- values of the environment
Urls == {"http://host/rpc"}
Credentials == {[user |-> "admin", password |-> "secret"]}
TokenAfter(t) == IF t = "tok0" THEN "tok1" ELSE "tok0"

NoHeader == "<absent>"
NonAscii == "<opaque bytes>"

\* ------------------------------------------------------------ types.rs
\* Option<BasicAuth>
None == [some |-> FALSE]
Some(basic_auth) == [some |-> TRUE, user |-> basic_auth.user, password |-> basic_auth.password]

\* The arguments the calls of the model are issued with: members of the
\* enumerations TorrentGetField and TorrentAction, and torrent ids.
FieldLists == {<<"Id", "Name">>}
TorrentAction == {"Start"}
IdLists == {<<1, 2, 3>>}

\* The protocol strings the enumeration members serialize to.
FieldName(field) == IF field = "Id" THEN "id" ELSE "name"
ActionMethod(action) == IF action = "Start" THEN "torrent-start" ELSE "torrent-stop"

RpcRequest_session_get == [method |-> "session-get", arguments |-> [kind |-> "none"]]
RpcRequest_torrent_get(fields) ==
    [method |-> "torrent-get",
     arguments |-> [kind |-> "fields",
                    fields |-> [i \in 1 .. Len(fields) |-> FieldName(fields[i])]]]
RpcRequest_torrent_action(action, ids) ==
    [method |-> ActionMethod(action), arguments |-> [kind |-> "ids", ids |-> ids]]
NoRequest == [method |-> "<none>", arguments |-> [kind |-> "none"]]

\* The result strings of the envelopes the daemon answers with.
Results == {"success", "invalid argument"}

\* HTTP bodies of responses: a JSON envelope {"result":..,"arguments":..}
\* whose arguments have one of the shapes SessionGet, Torrents, Nothing (the
\* RpcResponseArgument implementors), or a body that is no envelope.
HtmlBody == [kind |-> "html"]
JsonBody(result, shape) == [kind |-> "json", result |-> result, shape |-> shape]
\* The envelope of torrent-get with its records: {"torrents": [..]}.
TorrentsBody(result, torrents) ==
    [kind |-> "json", result |-> result, shape |-> "Torrents", torrents |-> torrents]

\* The method catalogue: the response shape agreed for each method.
ExpectedShape(method) ==
    IF method = "session-get" THEN "SessionGet"
    ELSE IF method = "torrent-get" THEN "Torrents"
    ELSE "Nothing"
OtherShape(sh) == IF sh = "Torrents" THEN "Nothing" ELSE "Torrents"

\* What the daemon may put in the body of its 200 answer to a request of a
\* method: the envelope of the method with one of the results, the envelope
\* of another method, or no envelope at all.
Bodies(method) ==
    {HtmlBody, JsonBody("success", OtherShape(ExpectedShape(method)))}
    \cup {JsonBody(r, ExpectedShape(method)) : r \in Results}

\* serde: RpcResponse<RS> decodes from an envelope whose arguments match RS.
RpcResponse(result, shape) == [result |-> result, arguments |-> shape]
Decodes(body, RS) == body.kind = "json" /\ body.shape = RS
Decode(body, RS) ==
    IF "torrents" \in DOMAIN body
    THEN [result |-> body.result, arguments |-> body.shape, torrents |-> body.torrents]
    ELSE RpcResponse(body.result, body.shape)

\* --------------------------------------------------------- HTTP messages
BasicAuthHeader(user, password) == <<"Basic", user, password>>
NoAuthHeader == << >>

NoAnswer == [kind |-> "none"]
TransportFailure == [kind |-> "error"]
HttpResponse(status, sid, body) == [kind |-> "response", status |-> status, session_id |-> sid, body |-> body]
BodyOfStatus(status) == IF status = 200 THEN JsonBody("success", "SessionGet") ELSE HtmlBody

\* ------------------------------------------------------------- outcomes
Pending == [tag |-> "Pending"]
Ok(v) == [tag |-> "Ok", value |-> v]
Err(e) == [tag |-> "Err", error |-> e]
Panic(line) == [tag |-> "Panic", line |-> line]

VARIABLES client, joined, invoked, pc, request, shape, session_id, sent, response,
          decodes, outcome, serverToken, rotations

vars == <<client, joined, invoked, pc, request, shape, session_id, sent, response,
          decodes, outcome, serverToken, rotations>>

callVars == <<invoked, pc, request, shape, session_id, sent, response, decodes, outcome>>

\* What the caller invoked: the typed operation and its arguments.
NotInvoked == [op |-> "<none>", fields |-> << >>, action |-> "<none>", ids |-> << >>]
Invoked_session_get == [NotInvoked EXCEPT !.op = "session_get"]
Invoked_torrent_get(fields) == [NotInvoked EXCEPT !.op = "torrent_get", !.fields = fields]
Invoked_torrent_action(action, ids) ==
    [NotInvoked EXCEPT !.op = "torrent_action", !.action = action, !.ids = ids]
serverVars == <<serverToken, rotations>>

\* ---------------------------------------------------------- TransClient
TransClient_with_auth(url, basic_auth) == [url |-> url, auth |-> Some(basic_auth)]
TransClient_new(url) == [url |-> url, auth |-> None]

\* rpc_request without the basic_auth branch of lines 44-46.
rpc_request_no_auth(self) ==
    [verb |-> "POST",
     url |-> self.url,
     authorization |-> NoAuthHeader,
     content_type |-> "application/json",
     session_id |-> NoHeader,
     body |-> NoRequest]

\* rpc_request: POST to the url, basic auth when configured, content type.
rpc_request(self) ==
    [verb |-> "POST",
     url |-> self.url,
     authorization |-> IF self.auth.some
                       THEN BasicAuthHeader(self.auth.user, self.auth.password)
                       ELSE NoAuthHeader,
     content_type |-> "application/json",
     session_id |-> NoHeader,
     body |-> NoRequest]

header_session_id(rq, value) == [rq EXCEPT !.session_id = value]
json(rq, body) == [rq EXCEPT !.body = body]

\* The request get_session_id sends (lines 61-63).
TokenFetchRequest(self) == json(rpc_request(self), RpcRequest_session_get)

\* OperationRequest without the .header(..) of line 125.
OperationRequest_no_header(self, token, rpcRequest) ==
    json(rpc_request(self), rpcRequest)

\* The request call sends (lines 124-126).
OperationRequest(self, token, rpcRequest) ==
    json(header_session_id(rpc_request(self), token), rpcRequest)

Init ==
    /\ client \in {TransClient_new(u) : u \in Urls}
                  \cup {TransClient_with_auth(u, a) : u \in Urls, a \in Credentials}
    /\ joined \in BOOLEAN
    /\ invoked = [c \in CallIds |-> NotInvoked]
    /\ pc = [c \in CallIds |-> "idle"]
    /\ request = [c \in CallIds |-> NoRequest]
    /\ shape = [c \in CallIds |-> "Nothing"]
    /\ session_id = [c \in CallIds |-> NoHeader]
    /\ sent = [c \in CallIds |-> << >>]
    /\ response = [c \in CallIds |-> NoAnswer]
    /\ decodes = [c \in CallIds |-> 0]
    /\ outcome = [c \in CallIds |-> Pending]
    /\ serverToken = "tok0"
    /\ rotations = 0

\* A panic unwinds the task: the panicking call ends, and when the calls are
\* polled in one task the futures of the suspended ones are dropped with it.
Suspended(c) == pc[c] \in {"await_token", "await_op"}
unwind(c) ==
    [d \in CallIds |->
        IF d = c THEN "done"
        ELSE IF joined /\ Suspended(d) THEN "dropped"
        ELSE pc[d]]
TaskUnwound == joined /\ \E d \in CallIds : outcome[d].tag = "Panic"

\* call with a token kept from an earlier call: the token fetch is skipped
\* when some call has already obtained a token.
call_begin_cached(c, rpcRequest, RS) ==
    /\ pc[c] = "idle"
    /\ ~TaskUnwound
    /\ request' = [request EXCEPT ![c] = rpcRequest]
    /\ shape' = [shape EXCEPT ![c] = RS]
    /\ IF \E d \in CallIds : session_id[d] # NoHeader
       THEN LET d == CHOOSE e \in CallIds : session_id[e] # NoHeader
            IN /\ pc' = [pc EXCEPT ![c] = "await_op"]
               /\ session_id' = [session_id EXCEPT ![c] = session_id[d]]
               /\ sent' = [sent EXCEPT ![c] =
                     Append(@, OperationRequest(client, session_id[d], rpcRequest))]
       ELSE /\ pc' = [pc EXCEPT ![c] = "await_token"]
            /\ sent' = [sent EXCEPT ![c] = Append(@, TokenFetchRequest(client))]
            /\ UNCHANGED session_id
    /\ UNCHANGED <<client, joined, response, decodes, outcome, serverVars>>

\* call, up to the first suspension point: the argument of .header(..) on
\* line 125 is evaluated first, so get_session_id sends its request and
\* suspends at line 64.
call_begin(c, rpcRequest, RS) ==
    /\ pc[c] = "idle"
    /\ ~TaskUnwound
    /\ pc' = [pc EXCEPT ![c] = "await_token"]
    /\ request' = [request EXCEPT ![c] = rpcRequest]
    /\ shape' = [shape EXCEPT ![c] = RS]
    /\ sent' = [sent EXCEPT ![c] = Append(@, TokenFetchRequest(client))]
    /\ UNCHANGED <<client, joined, session_id, response, decodes, outcome, serverVars>>

session_get(c) ==
    /\ call_begin(c, RpcRequest_session_get, "SessionGet")
    /\ invoked' = [invoked EXCEPT ![c] = Invoked_session_get]

\* torrent_get that drops its fields argument.
torrent_get_no_fields(c, fields) ==
    /\ call_begin(c, RpcRequest_torrent_get(<< >>), "Torrents")
    /\ invoked' = [invoked EXCEPT ![c] = Invoked_torrent_get(fields)]

torrent_get(c, fields) ==
    /\ call_begin(c, RpcRequest_torrent_get(fields), "Torrents")
    /\ invoked' = [invoked EXCEPT ![c] = Invoked_torrent_get(fields)]

torrent_action(c, action, ids) ==
    /\ call_begin(c, RpcRequest_torrent_action(action, ids), "Nothing")
    /\ invoked' = [invoked EXCEPT ![c] = Invoked_torrent_action(action, ids)]

\* What the transport can hand back for the token-fetch request.
TokenFetchAnswers ==
    {TransportFailure}
    \cup {HttpResponse(st, sid, BodyOfStatus(st)) :
            st \in {200, 409}, sid \in {NoHeader, NonAscii, serverToken}}

\* What the transport can hand back for an operation request: the daemon
\* answers 409 with its current token when the request's token is not the
\* one it accepts, and 200 with a body otherwise.
OperationAnswers(rq) ==
    {TransportFailure}
    \cup IF rq.session_id = serverToken
         THEN {HttpResponse(200, NoHeader, b) : b \in Bodies(rq.body.method)}
         ELSE {HttpResponse(409, serverToken, HtmlBody)}

\* SessionHeaderValue with the token of another call used when one has
\* been obtained (a token slot shared by the calls of the client).
SessionHeaderValue_shared(c, fetched) ==
    IF \E d \in CallIds \ {c} : session_id[d] # NoHeader
    THEN session_id[CHOOSE d \in CallIds \ {c} : session_id[d] # NoHeader]
    ELSE fetched

\* SessionHeaderValue with the value of another header of the request
\* (the content type) put in the place of the fetched token.
SessionHeaderValue_wrong_header(c, fetched) == "application/json"

\* The header value call puts on the operation request (line 125).
SessionHeaderValue(c, fetched) == fetched

\* get_session_id_result with the status checked before the header is
\* read (an error_for_status().unwrap() after send): only a 2xx answer
\* yields a token.
get_session_id_result_error_for_status(answer) ==
    IF answer.kind = "error" \/ answer.status # 200 THEN Panic(65)
    ELSE IF answer.session_id = NoHeader THEN Panic(68)
    ELSE IF answer.session_id = NonAscii THEN Panic(70)
    ELSE Ok(answer.session_id)

\* get_session_id_result with a missing header replaced by an empty token
\* (unwrap_or_default instead of expect on line 68).
get_session_id_result_defaulted(answer) ==
    IF answer.kind = "error" THEN Panic(65)
    ELSE IF answer.session_id = NoHeader THEN Ok("")
    ELSE IF answer.session_id = NonAscii THEN Panic(70)
    ELSE Ok(answer.session_id)

\* What get_session_id makes of the result of send().await (lines 64-73):
\* unwrap panics on a transport failure, expect on a missing header,
\* to_str().unwrap() on a value that is no visible ASCII; otherwise the
\* header value is returned.  Status and body are not looked at.
get_session_id_result(answer) ==
    IF answer.kind = "error" THEN Panic(65)
    ELSE IF answer.session_id = NoHeader THEN Panic(68)
    ELSE IF answer.session_id = NonAscii THEN Panic(70)
    ELSE Ok(answer.session_id)

\* get_session_id resumed with the result of send().await (lines 64-73),
\* and call continued up to its own send (lines 125-128).
get_session_id_resume(c, answer) ==
    /\ pc[c] = "await_token"
    /\ response' = [response EXCEPT ![c] = answer]
    /\ LET got == get_session_id_result(answer)
       IN IF got.tag = "Panic"
          THEN /\ outcome' = [outcome EXCEPT ![c] = got]
               /\ pc' = unwind(c)
               /\ UNCHANGED <<session_id, sent>>
          ELSE /\ session_id' = [session_id EXCEPT ![c] = got.value]
               /\ sent' = [sent EXCEPT ![c] =
                    Append(@, OperationRequest(client,
                                               SessionHeaderValue(c, got.value),
                                               request[c]))]
               /\ pc' = [pc EXCEPT ![c] = "await_op"]
               /\ UNCHANGED outcome
    /\ UNCHANGED <<client, joined, invoked, request, shape, decodes, serverVars>>

\* call_result with the status of the response checked before the body is
\* read (an error_for_status() after send): a non-2xx answer is a transport
\* error.
call_result_error_for_status(answer, RS) ==
    IF answer.kind = "error" \/ answer.status # 200 THEN Err("Transport")
    ELSE IF Decodes(answer.body, RS) THEN Ok(Decode(answer.body, RS))
    ELSE Err("Decode")

\* call_result with a decode failure replaced by a defaulted envelope
\* (unwrap_or_default instead of ? on line 129).
call_result_defaulted(answer, RS) ==
    IF answer.kind = "error" THEN Err("Transport")
    ELSE IF Decodes(answer.body, RS) THEN Ok(Decode(answer.body, RS))
    ELSE Ok(RpcResponse("success", RS))

\* call_result with the result field of the envelope inspected: a result
\* other than "success" becomes an error.
call_result_checks_result(answer, RS) ==
    IF answer.kind = "error" THEN Err("Transport")
    ELSE IF ~Decodes(answer.body, RS) THEN Err("Decode")
    ELSE IF answer.body.result # "success" THEN Err("Application")
    ELSE Ok(Decode(answer.body, RS))

\* What call returns for the result of rq.send().await (line 128) followed
\* by resp.json().await (line 129): each ? returns the error, line 131 the
\* decoded envelope.
call_result(answer, RS) ==
    IF answer.kind = "error" THEN Err("Transport")
    ELSE IF Decodes(answer.body, RS) THEN Ok(Decode(answer.body, RS))
    ELSE Err("Decode")

\* call_resume with one refresh-and-resubmit on a 409 answer.
call_resume_retry(c, answer) ==
    /\ pc[c] = "await_op"
    /\ response' = [response EXCEPT ![c] = answer]
    /\ IF answer.kind = "response" /\ answer.status = 409
       THEN /\ pc' = [pc EXCEPT ![c] = "await_token"]
            /\ sent' = [sent EXCEPT ![c] = Append(@, TokenFetchRequest(client))]
            /\ UNCHANGED <<decodes, outcome>>
       ELSE /\ pc' = [pc EXCEPT ![c] = "done"]
            /\ decodes' = [decodes EXCEPT ![c] = IF answer.kind = "error" THEN @ ELSE @ + 1]
            /\ outcome' = [outcome EXCEPT ![c] = call_result(answer, shape[c])]
            /\ UNCHANGED sent
    /\ UNCHANGED <<client, joined, invoked, request, shape, session_id, serverVars>>

\* call_resume with the token of the call kept in the client when the call
\* ends (a session_id field next to url and auth).
call_resume_keeps_token(c, answer) ==
    /\ pc[c] = "await_op"
    /\ response' = [response EXCEPT ![c] = answer]
    /\ pc' = [pc EXCEPT ![c] = "done"]
    /\ decodes' = [decodes EXCEPT ![c] = IF answer.kind = "error" THEN @ ELSE @ + 1]
    /\ outcome' = [outcome EXCEPT ![c] = call_result(answer, shape[c])]
    /\ client' = [url |-> client.url, auth |-> client.auth, session_id |-> session_id[c]]
    /\ UNCHANGED <<joined, invoked, request, shape, session_id, sent, serverVars>>

\* call resumed with the result of rq.send().await, then resp.json().await
\* (lines 128-131).  The body is read and decoded only when send succeeded.
call_resume(c, answer) ==
    /\ pc[c] = "await_op"
    /\ response' = [response EXCEPT ![c] = answer]
    /\ pc' = [pc EXCEPT ![c] = "done"]
    /\ decodes' = [decodes EXCEPT ![c] = IF answer.kind = "error" THEN @ ELSE @ + 1]
    /\ outcome' = [outcome EXCEPT ![c] = call_result(answer, shape[c])]
    /\ UNCHANGED <<client, joined, invoked, request, shape, session_id, sent, serverVars>>

\* The daemon replaces its session token.
RotateToken ==
    /\ rotations < MaxRotations
    /\ rotations' = rotations + 1
    /\ serverToken' = TokenAfter(serverToken)
    /\ UNCHANGED <<client, joined, callVars>>

Next ==
    \/ \E c \in CallIds : session_get(c)
    \/ \E c \in CallIds, fields \in FieldLists : torrent_get(c, fields)
    \/ \E c \in CallIds, action \in TorrentAction, ids \in IdLists : torrent_action(c, action, ids)
    \/ \E c \in CallIds : \E answer \in TokenFetchAnswers : get_session_id_resume(c, answer)
    \/ \E c \in CallIds :
          /\ pc[c] = "await_op"
          /\ \E answer \in OperationAnswers(sent[c][Len(sent[c])]) : call_resume(c, answer)
    \/ RotateToken

Spec == Init /\ [][Next]_vars

\* The transport eventually answers or fails every request it was given:
\* a call suspended at one of its two awaits is eventually resumed.
TokenFetchResumed(c) == \E answer \in TokenFetchAnswers : get_session_id_resume(c, answer)
OperationResumed(c) ==
    /\ pc[c] = "await_op"
    /\ \E answer \in OperationAnswers(sent[c][Len(sent[c])]) : call_resume(c, answer)
FairSpec ==
    /\ Spec
    /\ \A c \in CallIds : WF_vars(TokenFetchResumed(c)) /\ WF_vars(OperationResumed(c))

\* ---------------------------------------------- one call, many arguments
\* A client that issues a single call, with the arguments and the torrent
\* records ranging over more values.
ArgFieldLists == {<< >>, <<"Id">>, <<"Id", "Name">>, <<"Name", "Id">>}
ArgActions == {"Start", "Stop"}
ArgIdLists == {<< >>, <<1, 2, 3>>, <<3, 1>>}
TorrentRecord(id, name) == [id |-> id, name |-> name]
TorrentLists ==
    {<< >>,
     <<TorrentRecord(1, "x")>>,
     <<TorrentRecord(1, "x"), TorrentRecord(2, "y")>>,
     <<TorrentRecord(2, "y"), TorrentRecord(1, "x")>>}

ArgOperationAnswers(rq) ==
    OperationAnswers(rq)
    \cup IF rq.session_id = serverToken /\ rq.body.method = "torrent-get"
         THEN {HttpResponse(200, NoHeader, TorrentsBody("success", ts)) : ts \in TorrentLists}
         ELSE {}

NextArgs ==
    LET c == CHOOSE d \in CallIds : \A e \in CallIds : d <= e
    IN \/ session_get(c)
       \/ \E fields \in ArgFieldLists : torrent_get(c, fields)
       \/ \E action \in ArgActions, ids \in ArgIdLists : torrent_action(c, action, ids)
       \/ \E answer \in TokenFetchAnswers : get_session_id_resume(c, answer)
       \/ /\ pc[c] = "await_op"
          /\ \E answer \in ArgOperationAnswers(sent[c][Len(sent[c])]) : call_resume(c, answer)
       \/ RotateToken

SpecArgs == Init /\ [][NextArgs]_vars

\* ============================================================ properties
RECURSIVE SumTo(_, _)
SumTo(f, n) == IF n = 0 THEN 0 ELSE f[n] + SumTo(f, n - 1)

IsTokenFetch(rq) == rq.session_id = NoHeader /\ rq.body = RpcRequest_session_get
TokenFetches(c) == {i \in 1 .. Len(sent[c]) : IsTokenFetch(sent[c][i])}
OperationRequests(c) == {i \in 1 .. Len(sent[c]) : ~IsTokenFetch(sent[c][i])}
RequestsSent == SumTo([c \in CallIds |-> Len(sent[c])], MaxCalls)
TokenFetchesSent == SumTo([c \in CallIds |-> Cardinality(TokenFetches(c))], MaxCalls)
ReturnedOk(c) == outcome[c].tag = "Ok"

\* response[c] holds the answer to the operation request of c: the call
\* has ended after sending it.
OperationEnded(c) == pc[c] = "done" /\ Len(sent[c]) = 2
OperationAnswered(c) == OperationEnded(c) /\ response[c].kind = "response"
\* response[c] holds the answer to the token fetch of c.
TokenFetchEnded(c) == response[c].kind # "none" /\ ~OperationEnded(c)
TokenFetchAnswered(c) == TokenFetchEnded(c) /\ response[c].kind = "response"

\* C1: a call that returns Ok has made exactly two round trips, a token
\* fetch and then its operation request, and when every call issued so far
\* has returned Ok, n calls have sent exactly 2n requests, n of them token
\* fetches.
C1_TwoRoundTripsPerCall ==
    /\ \A c \in CallIds :
          ReturnedOk(c) =>
             /\ Len(sent[c]) = 2
             /\ IsTokenFetch(sent[c][1])
             /\ ~IsTokenFetch(sent[c][2])
             /\ sent[c][2].body = request[c]
             /\ session_id[c] # NoHeader
             /\ decodes[c] = 1
    /\ (\A c \in CallIds : pc[c] = "idle" \/ ReturnedOk(c)) =>
          LET n == Cardinality({c \in CallIds : ReturnedOk(c)})
          IN RequestsSent = 2 * n /\ TokenFetchesSent = n

\* Two calls have returned Ok on the same client.
C1_Witness ==
    /\ Cardinality({c \in CallIds : ReturnedOk(c)}) >= 2
    /\ RequestsSent >= 4

\* C2: a token-fetch response without the x-transmission-session-id header
\* makes the call return the error value ProtocolError, and no token is
\* obtained.
C2_MissingHeaderIsProtocolError ==
    \A c \in CallIds :
       (TokenFetchAnswered(c) /\ response[c].session_id = NoHeader) =>
          /\ outcome[c] = Err("Protocol")
          /\ session_id[c] = NoHeader

\* C3: a transport failure on either exchange of a torrent_get call makes
\* it return the error value TransportError, and no body is decoded.
C3_TransportFailureIsTransportError ==
    \A c \in CallIds :
       (request[c].method = "torrent-get" /\ response[c].kind = "error") =>
          /\ outcome[c] = Err("Transport")
          /\ decodes[c] = 0

\* C4: every call that has ended has ended in Ok or Err, and every failure
\* of either exchange has reached the caller as a returned Err.
C4_OkOrErrOnly ==
    \A c \in CallIds :
       /\ pc[c] = "done" => outcome[c].tag \in {"Ok", "Err"}
       /\ (\/ response[c].kind = "error"
           \/ (TokenFetchAnswered(c) /\ response[c].session_id \in {NoHeader, NonAscii})
           \/ (OperationAnswered(c)
                 /\ ~Decodes(response[c].body, ExpectedShape(request[c].method))))
          => outcome[c].tag = "Err"

\* C5: on a client built by with_auth every request sent, token fetch and
\* operation request alike, carries the basic-auth header of the stored
\* credentials; on a client built by new none carries one.
C5_CredentialsOnEveryRequest ==
    \A c \in CallIds : \A i \in 1 .. Len(sent[c]) :
       /\ (\E a \in Credentials : client = TransClient_with_auth(client.url, a)) =>
             sent[c][i].authorization = <<"Basic", client.auth.user, client.auth.password>>
       /\ client = TransClient_new(client.url) => sent[c][i].authorization = << >>

\* A client with credentials has sent both requests of a call.
C5_Witness ==
    /\ client.auth.some
    /\ \E c \in CallIds : Len(sent[c]) = 2

\* C6: a call sends at most one token fetch and at most one operation
\* request, and a failed operation request (transport failure, 409 for a
\* stale token, undecodable body) ends the call with Err, nothing resent.
C6_NoAutomaticRetry ==
    \A c \in CallIds :
       /\ Cardinality(TokenFetches(c)) <= 1
       /\ Cardinality(OperationRequests(c)) <= 1
       /\ (Len(sent[c]) >= 2 /\ pc[c] # "await_op" /\ pc[c] # "dropped"
             /\ \/ response[c].kind = "error"
                \/ response[c].status = 409
                \/ ~Decodes(response[c].body, shape[c])) =>
             /\ pc[c] = "done"
             /\ outcome[c].tag = "Err"
             /\ Len(sent[c]) = 2

\* The daemon has rejected the operation request of a call with 409.
C6_Witness ==
    \E c \in CallIds :
       /\ OperationAnswered(c)
       /\ response[c].status = 409
       /\ outcome[c].tag = "Err"

\* The token of the operation request of c was no longer the daemon's when
\* the request was processed: the daemon answered 409.
StaleRejected(c) == OperationAnswered(c) /\ response[c].status = 409

\* C7 as stated: a call whose token went stale between its token fetch and
\* its operation request fails with an error of a kind of its own, none of
\* transport, protocol, decode.
C7_StaleTokenDistinguishable ==
    \A c \in CallIds :
       StaleRejected(c) =>
          /\ outcome[c].tag = "Err"
          /\ outcome[c].error \notin {"Transport", "Protocol", "Decode"}

\* C7 amended: a call whose token went stale between its token fetch and
\* its operation request gets the daemon's 409 with a body that is no
\* envelope, and returns the decode error that any undecodable body gives.
C7_StaleTokenIsDecodeError ==
    \A c \in CallIds :
       StaleRejected(c) =>
          /\ sent[c][2].session_id = session_id[c]
          /\ response[c].body = HtmlBody
          /\ outcome[c] = Err("Decode")

\* The daemon rotated its token after the token fetch of a call, and the
\* call has ended.
C7_Witness ==
    \E c \in CallIds :
       /\ StaleRejected(c)
       /\ rotations >= 1
       /\ sent[c][2].session_id # serverToken
       /\ outcome[c].tag # "Pending"

\* C8: every call sends its own token fetch and its own operation request,
\* the operation request carries the token of the call's own token fetch,
\* and no call is ended by what happens in another call.
OwnTokenOnOperationRequest ==
    \A c \in CallIds :
       /\ Len(sent[c]) >= 1 => IsTokenFetch(sent[c][1])
       /\ Len(sent[c]) >= 2 =>
             /\ sent[c][2].session_id = session_id[c]
             /\ sent[c][2].body = request[c]
       /\ pc[c] = "await_op" => session_id[c] = response[c].session_id
C8_ConcurrentCallsIndependent ==
    /\ OwnTokenOnOperationRequest
    /\ \A c \in CallIds : pc[c] # "dropped"

\* C9: a 200 answer to the operation request whose body does not have the
\* shape agreed for the method called makes the call return DecodeError.
C9_ShapeMismatchIsDecodeError ==
    \A c \in CallIds :
       (OperationAnswered(c)
           /\ response[c].status = 200
           /\ \/ response[c].body.kind # "json"
              \/ response[c].body.shape # ExpectedShape(request[c].method)) =>
          outcome[c] = Err("Decode")

\* A 200 answer carried an envelope of the shape of another method.
C9_Witness ==
    \E c \in CallIds :
       /\ OperationAnswered(c)
       /\ response[c].status = 200
       /\ response[c].body.kind = "json"
       /\ response[c].body.shape # ExpectedShape(request[c].method)
       /\ outcome[c] = Err("Decode")

\* C10: a decodable answer whose result is not "success" is returned as Ok
\* with the result string of the body.
C10_ApplicationErrorIsOk ==
    \A c \in CallIds :
       (OperationAnswered(c)
           /\ response[c].body.kind = "json"
           /\ response[c].body.shape = ExpectedShape(request[c].method)
           /\ response[c].body.result # "success") =>
          /\ outcome[c].tag = "Ok"
          /\ outcome[c].value.result = response[c].body.result
          /\ outcome[c].value.arguments = response[c].body.shape

\* A call returned an envelope whose result is an error string.
C10_Witness ==
    \E c \in CallIds :
       /\ ReturnedOk(c)
       /\ outcome[c].value.result = "invalid argument"

\* C11: the operation request of a call is the request of the typed
\* operation invoked, with its own arguments in order, the token-fetch
\* request is always a session-get request, and torrent_get returns the
\* torrent records of a successful matching response in order.
C11_TypedOperationsSendTheirRequest ==
    \A c \in CallIds :
       LET inv == invoked[c]
       IN /\ Len(sent[c]) >= 1 =>
                sent[c][1].body = [method |-> "session-get", arguments |-> [kind |-> "none"]]
          /\ Len(sent[c]) >= 2 =>
                LET body == sent[c][2].body
                IN /\ inv.op \in {"session_get", "torrent_get", "torrent_action"}
                   /\ inv.op = "session_get" =>
                         body = [method |-> "session-get", arguments |-> [kind |-> "none"]]
                   /\ inv.op = "torrent_get" =>
                         /\ body.method = "torrent-get"
                         /\ body.arguments.kind = "fields"
                         /\ Len(body.arguments.fields) = Len(inv.fields)
                         /\ \A i \in 1 .. Len(inv.fields) :
                               body.arguments.fields[i] = FieldName(inv.fields[i])
                   /\ inv = Invoked_torrent_get(<<"Id", "Name">>) =>
                         body = [method |-> "torrent-get",
                                 arguments |-> [kind |-> "fields", fields |-> <<"id", "name">>]]
                   /\ inv.op = "torrent_action" =>
                         /\ body.method = ActionMethod(inv.action)
                         /\ body.arguments.kind = "ids"
                         /\ body.arguments.ids = inv.ids
                   /\ inv = Invoked_torrent_action("Start", <<1, 2, 3>>) =>
                         body = [method |-> "torrent-start",
                                 arguments |-> [kind |-> "ids", ids |-> <<1, 2, 3>>]]
          /\ (inv.op = "torrent_get"
                /\ OperationAnswered(c)
                /\ response[c].status = 200
                /\ "torrents" \in DOMAIN response[c].body
                /\ response[c].body.result = "success") =>
                /\ outcome[c].tag = "Ok"
                /\ outcome[c].value.result = "success"
                /\ outcome[c].value.torrents = response[c].body.torrents

\* torrent_get([Name, Id]) has returned two records in the order of the
\* response.
C11_Witness ==
    \E c \in CallIds :
       /\ invoked[c] = Invoked_torrent_get(<<"Name", "Id">>)
       /\ Len(sent[c]) = 2
       /\ sent[c][2].body.arguments.fields = <<"name", "id">>
       /\ ReturnedOk(c)
       /\ "torrents" \in DOMAIN outcome[c].value
       /\ outcome[c].value.torrents = <<TorrentRecord(2, "y"), TorrentRecord(1, "x")>>

\* C12: the token-fetch request has no X-Transmission-Session-Id header,
\* the operation request has one, and both are POSTs to the configured
\* endpoint with Content-Type application/json.
C12_RequestHeaders ==
    \A c \in CallIds :
       /\ Len(sent[c]) >= 1 => sent[c][1].session_id = NoHeader
       /\ Len(sent[c]) >= 2 => sent[c][2].session_id # NoHeader
       /\ \A i \in 1 .. Len(sent[c]) :
             /\ sent[c][i].verb = "POST"
             /\ sent[c][i].url = client.url
             /\ sent[c][i].content_type = "application/json"

\* A call has sent both of its requests, the second with the token the
\* daemon rotated to.
C12_Witness ==
    \E c \in CallIds :
       /\ Len(sent[c]) = 2
       /\ sent[c][2].session_id = TokenAfter("tok0")

\* C13: the operation request is sent only after the answer to the token
\* fetch has been received, and its X-Transmission-Session-Id value is the
\* x-transmission-session-id value of that answer.
C13_ExchangesSequential ==
    \A c \in CallIds :
       /\ pc[c] = "await_token" => Len(sent[c]) = 1 /\ response[c] = NoAnswer
       /\ Len(sent[c]) >= 2 =>
             /\ response[c] # NoAnswer
             /\ session_id[c] \notin {NoHeader, NonAscii}
             /\ sent[c][2].session_id = session_id[c]
       /\ pc[c] = "await_op" =>
             /\ response[c].kind = "response"
             /\ sent[c][2].session_id = response[c].session_id

\* Two calls are suspended on their operation requests with different
\* tokens, each the one of its own token fetch.
C13_Witness ==
    \E c, d \in CallIds :
       /\ pc[c] = "await_op" /\ pc[d] = "await_op"
       /\ sent[c][2].session_id # sent[d][2].session_id

\* C14 as stated: the daemon never finds a token it does not accept on an
\* operation request (it never answers one with 409).
C14_EveryRequestCarriesValidToken ==
    \A c \in CallIds : OperationAnswered(c) => response[c].status # 409

\* The tokens the daemon has handed out so far.
IssuedTokens == {"tok0"} \cup (IF rotations >= 1 THEN {TokenAfter("tok0")} ELSE {})

\* C14 amended: the token on an operation request is one the daemon handed
\* out, in that call's token fetch; it is not the one the daemon accepts
\* only when the daemon has replaced its token since, and only then does
\* the daemon answer 409.
C14_TokenValidUnlessRotated ==
    \A c \in CallIds :
       Len(sent[c]) >= 2 =>
          /\ sent[c][2].session_id \in IssuedTokens
          /\ sent[c][2].session_id = session_id[c]
          /\ sent[c][2].session_id # serverToken => rotations >= 1
          /\ StaleRejected(c) => rotations >= 1

\* An operation request is in flight with a token the daemon has replaced.
C14_Witness ==
    \E c \in CallIds :
       /\ pc[c] = "await_op"
       /\ sent[c][2].session_id # serverToken

\* C15: the token fetch returns the value of the session-id header of the
\* answer whatever its status and body, without decoding the body.
C15_TokenFromHeaderOnly ==
    \A c \in CallIds :
       (TokenFetchAnswered(c) /\ response[c].session_id \notin {NoHeader, NonAscii}) =>
          /\ session_id[c] = response[c].session_id
          /\ Len(sent[c]) = 2
          /\ sent[c][2].session_id = response[c].session_id
          /\ decodes[c] = 0
          /\ outcome[c] = Pending

\* One call took its token from a 409 answer with an HTML body, another
\* from a 200 answer with a JSON body.
C15_Witness ==
    \E c, d \in CallIds :
       /\ TokenFetchAnswered(c) /\ TokenFetchAnswered(d)
       /\ response[c].status = 409 /\ response[c].body = HtmlBody
       /\ response[d].status = 200 /\ response[d].body.kind = "json"
       /\ session_id[c] = response[c].session_id
       /\ session_id[d] = response[d].session_id

\* C16: no step of any call changes the client: url and auth stay as
\* constructed, and the client has no field in which a token could stay.
C16_ClientReadOnly ==
    [][client' = client /\ DOMAIN client' = {"url", "auth"}]_vars

\* One call has returned Ok and another has ended in a failure.
C16_Witness ==
    \E c, d \in CallIds :
       /\ ReturnedOk(c)
       /\ pc[d] = "done" /\ outcome[d].tag # "Ok"
       /\ session_id[c] # NoHeader

\* C17: a token fetch that failed for a missing header and one that failed
\* in the transport both give the caller an outcome, and the two differ.
C17_MissingHeaderDistinctFromTransport ==
    \A c, d \in CallIds :
       (/\ TokenFetchAnswered(c) /\ response[c].session_id = NoHeader
        /\ TokenFetchEnded(d) /\ response[d].kind = "error") =>
          /\ outcome[c].tag = "Err"
          /\ outcome[d].tag = "Err"
          /\ outcome[c] # outcome[d]

\* C18: a call whose token fetch yields no token (transport failure,
\* missing or unreadable header) sends no operation request; an operation
\* request is sent only after an answer carrying the header.
C18_NoOperationWithoutToken ==
    \A c \in CallIds :
       /\ (TokenFetchEnded(c)
             /\ \/ response[c].kind = "error"
                \/ response[c].session_id \in {NoHeader, NonAscii}) =>
             /\ Len(sent[c]) = 1
             /\ pc[c] = "done"
             /\ session_id[c] = NoHeader
       /\ Len(sent[c]) >= 2 => session_id[c] \notin {NoHeader, NonAscii, ""}

\* A call has ended on an answer without the header, with one request sent.
C18_Witness ==
    \E c \in CallIds :
       /\ TokenFetchAnswered(c)
       /\ response[c].session_id = NoHeader
       /\ Len(sent[c]) = 1
       /\ pc[c] = "done"

\* C19: with a transport that answers or fails every request, every call
\* that was started reaches a final outcome, after at most two exchanges,
\* whatever the other calls do.
C19_EveryCallTerminates ==
    \A c \in CallIds :
       (pc[c] = "await_token") ~> (outcome[c] # Pending /\ Len(sent[c]) <= 2)

====
